---------------------------- MODULE Spec2Model ----------------------------
(***************************************************************************)
(* Fake Product Detector: the live analysis endpoint (POST /api/analyze),  *)
(* the demo endpoint (POST /api/demo-analyze) and the upload/preview UI    *)
(* (FakeProductDetector).                                                   *)
(*                                                                         *)
(* Strings.  A JavaScript string is modelled as a sequence of atoms, each  *)
(* atom a chunk of consecutive characters; Chars gives the characters of   *)
(* the atoms that contain letters the code searches for.  The text is the  *)
(* concatenation of its atoms, without separators.  includes and           *)
(* toLowerCase work on the characters; the regular expression and          *)
(* JSON.parse work on the atoms "{", "}", "[", "]", ",", ":", the quote    *)
(* and the number atoms, which are one-atom lexemes.                       *)
(***************************************************************************)
EXTENDS Integers, Sequences, FiniteSets, TLC

VARIABLES
    \* ---- one HTTP request against one of the two route handlers
    endpoint,        \* "analyze" | "demo": the route the request is sent to
    apiKeySet,       \* process.env.OPENAI_API_KEY is non-empty
    body,            \* "form" | "malformed": whether request.formData() resolves
    image,           \* formData.get("image"): NoImage, a text field or a File
    pc,              \* position of the handler
    providerCalls,   \* openai.chat.completions.create calls made for this request
    analysisText,    \* response.choices[0]?.message?.content of the provider
    parsedJson,      \* whether JSON.parse returned (the try block at 107-116)
    thrown,          \* the Error the handler's catch block caught, if any
    providerJson,    \* the JSON object the provider wrote into its text, if any
    response,        \* the NextResponse the handler returned
    \* ---- the React component FakeProductDetector
    selectedImage, imagePreview, isAnalyzing, result, error, dragActive, demoMode,
    reads,           \* FileReaders whose onload has not run yet
    inflight,        \* analyzeImage invocations awaiting fetch or response.json()
    report           \* the report downloadReport built last

apiVars == <<endpoint, apiKeySet, body, image, pc, providerCalls, analysisText,
             parsedJson, thrown, providerJson, response>>
uiVars  == <<selectedImage, imagePreview, isAnalyzing, result, error, dragActive,
             demoMode, reads, inflight, report>>
vars    == <<apiVars, uiVars>>

----------------------------------------------------------------------------
(* Bounds of the model *)

\* provider texts made of arbitrary atoms have at most this many atoms
MaxTextLen == 3
\* image sizes range over 20 MiB - SizeSlack .. 20 MiB + SizeSlack (and 2 KB)
SizeSlack == 1
\* Math.random() returns k / RandRes for k in 0 .. RandRes - 1
RandRes == 30
\* provider error messages have at most this many atoms
MaxMsgLen == 2
\* the user has this many image files to pick from
MaxFiles == 2
\* analyzeImage is entered while fewer than this many requests are in flight
MaxInFlight == 2

\* at most this many FileReaders are pending at a time
MaxReads == 2

----------------------------------------------------------------------------
(* Characters *)

\* The characters of an atom.  Atoms without an entry stand for themselves:
\* one symbol that is no letter and no space.
Chars(a) ==
    CASE a = "fake"        -> <<"f","a","k","e">>
      [] a = "FAKE"        -> <<"F","A","K","E">>
      [] a = "Fa"          -> <<"F","a">>
      [] a = "ke"          -> <<"k","e">>
      [] a = "Counterfeit" -> <<"C","o","u","n","t","e","r","f","e","i","t">>
      [] a = "replica"     -> <<"r","e","p","l","i","c","a">>
      [] a = "genuine"     -> <<"g","e","n","u","i","n","e">>
      [] a = "Fake"        -> <<"F","a","k","e">>
      [] a = "Real"        -> <<"R","e","a","l">>
      [] a = "Product"     -> <<"P","r","o","d","u","c","t">>
      [] a = " "           -> <<" ">>
      [] a = "counterfeit" -> <<"c","o","u","n","t","e","r","f","e","i","t">>
      [] a = "API key"     -> <<"A","P","I"," ","k","e","y">>
      [] a = "API"         -> <<"A","P","I">>
      [] a = " key"        -> <<" ","k","e","y">>
      [] a = "quota"       -> <<"q","u","o","t","a">>
      [] a = "Quota"       -> <<"Q","u","o","t","a">>
      [] a = "rate limit"  -> <<"r","a","t","e"," ","l","i","m","i","t">>
      [] a = "timeout"     -> <<"t","i","m","e","o","u","t">>
      [] a = "Analysis failed: " ->
             <<"A","n","a","l","y","s","i","s"," ","f","a","i","l","e","d",":"," ">>
      [] OTHER             -> <<a>>

RECURSIVE Flat(_)
\* the characters of a string
Flat(s) == IF s = <<>> THEN <<>> ELSE Chars(Head(s)) \o Flat(Tail(s))

\* String.prototype.toLowerCase, on one character
LowerChar(c) ==
    CASE c = "A" -> "a" [] c = "C" -> "c" [] c = "E" -> "e" [] c = "F" -> "f"
      [] c = "I" -> "i" [] c = "K" -> "k" [] c = "P" -> "p" [] c = "Q" -> "q"
      [] c = "R" -> "r" [] OTHER -> c

\* String.prototype.toLowerCase, on the characters of a string
ToLowerCase(cs) == [i \in 1..Len(cs) |-> LowerChar(cs[i])]

\* String.prototype.includes, on characters
Includes(cs, sub) ==
    \E i \in 0..(Len(cs) - Len(sub)) :
        \A j \in 1..Len(sub) : cs[i + j] = sub[j]

\* String.prototype.startsWith, on characters
StartsWith(cs, pre) ==
    /\ Len(pre) <= Len(cs)
    /\ \A j \in 1..Len(pre) : cs[j] = pre[j]

\* === on two strings
StrEq(s, t) == Flat(s) = Flat(t)

----------------------------------------------------------------------------
(* JavaScript values *)

JsVal(t, n, s, a, o) == [t |-> t, n |-> n, s |-> s, a |-> a, o |-> o]
Undef     == JsVal("undefined", 0, <<>>, <<>>, <<>>)
Null      == JsVal("null", 0, <<>>, <<>>, <<>>)
NaN       == JsVal("nan", 0, <<>>, <<>>, <<>>)
Bool(b)   == JsVal("boolean", IF b THEN 1 ELSE 0, <<>>, <<>>, <<>>)
Num(n)    == JsVal("number", n, <<>>, <<>>, <<>>)
Str(s)    == JsVal("string", 0, s, <<>>, <<>>)
Arr(a)    == JsVal("array", 0, <<>>, a, <<>>)
\* an object: its members in source order, [k |-> key string, v |-> value]
Obj(o)    == JsVal("object", 0, <<>>, <<>>, o)

\* ToBoolean: what || and ! test
Truthy(v) ==
    CASE v.t \in {"undefined", "null", "nan"} -> FALSE
      [] v.t \in {"boolean", "number"}        -> v.n # 0
      [] v.t = "string"                       -> Flat(v.s) # <<>>
      [] OTHER                                -> TRUE

\* a || b
Or(a, b) == IF Truthy(a) THEN a ELSE b

RECURSIVE Lookup(_, _, _)
\* the member of key k added last, scanning from index i down
Lookup(o, k, i) ==
    IF i = 0 THEN Undef
    ELSE IF StrEq(o[i].k, k) THEN o[i].v ELSE Lookup(o, k, i - 1)

\* v.k for a value that is not undefined or null; v?.k in general
Prop(v, k) == IF v.t = "object" THEN Lookup(v.o, <<k>>, Len(v.o)) ELSE Undef

----------------------------------------------------------------------------
(* JSON.parse, on atoms *)

Quote == "\""

\* the number lexemes of the vocabulary and their values
NumAtoms == {"-5", "0", "1", "40", "75", "100", "150"}
NumVal(a) ==
    CASE a = "-5" -> -5 [] a = "0" -> 0 [] a = "1" -> 1 [] a = "40" -> 40
      [] a = "75" -> 75 [] a = "100" -> 100 [] a = "150" -> 150

ParseFail    == [ok |-> FALSE, v |-> Undef, i |-> 0]
ParseOk(v, i) == [ok |-> TRUE, v |-> v, i |-> i]

RECURSIVE SkipWs(_, _)
\* the first index at or after i that holds no white space
SkipWs(ts, i) == IF i <= Len(ts) /\ ts[i] = " " THEN SkipWs(ts, i + 1) ELSE i

RECURSIVE StrEnd(_, _)
\* the index of the first quote at or after i, 0 when there is none
StrEnd(ts, i) ==
    IF i > Len(ts) THEN 0 ELSE IF ts[i] = Quote THEN i ELSE StrEnd(ts, i + 1)

\* a string literal whose opening quote is at i
ParseString(ts, i) ==
    LET e == StrEnd(ts, i + 1)
    IN  IF e = 0 THEN ParseFail ELSE ParseOk(Str(SubSeq(ts, i + 1, e - 1)), e + 1)

RECURSIVE ParseValue(_, _), ParseMembers(_, _, _), ParseElements(_, _, _)

\* a JSON value starting at i (white space skipped)
ParseValue(ts, i0) ==
    LET i == SkipWs(ts, i0)
    IN  IF i > Len(ts) THEN ParseFail
        ELSE CASE ts[i] = Quote   -> ParseString(ts, i)
               [] ts[i] \in NumAtoms -> ParseOk(Num(NumVal(ts[i])), i + 1)
               [] ts[i] = "null"  -> ParseOk(Null, i + 1)
               [] ts[i] = "{"     ->
                    LET j == SkipWs(ts, i + 1)
                    IN  IF j <= Len(ts) /\ ts[j] = "}"
                        THEN ParseOk(Obj(<<>>), j + 1)
                        ELSE ParseMembers(ts, j, <<>>)
               [] ts[i] = "["     ->
                    LET j == SkipWs(ts, i + 1)
                    IN  IF j <= Len(ts) /\ ts[j] = "]"
                        THEN ParseOk(Arr(<<>>), j + 1)
                        ELSE ParseElements(ts, j, <<>>)
               [] OTHER           -> ParseFail

\* the members of an object from i on, up to and including its "}"
ParseMembers(ts, i0, acc) ==
    LET i == SkipWs(ts, i0)
    IN  IF i > Len(ts) \/ ts[i] # Quote THEN ParseFail
        ELSE LET k == ParseString(ts, i)
                 c == SkipWs(ts, k.i)
             IN  IF ~k.ok \/ c > Len(ts) \/ ts[c] # ":" THEN ParseFail
                 ELSE LET v == ParseValue(ts, c + 1)
                          n == SkipWs(ts, v.i)
                          more == Append(acc, [k |-> k.v.s, v |-> v.v])
                      IN  IF ~v.ok \/ n > Len(ts) THEN ParseFail
                          ELSE IF ts[n] = "}" THEN ParseOk(Obj(more), n + 1)
                          ELSE IF ts[n] = "," THEN ParseMembers(ts, n + 1, more)
                          ELSE ParseFail

\* the elements of an array from i on, up to and including its "]"
ParseElements(ts, i0, acc) ==
    LET v == ParseValue(ts, i0)
        n == SkipWs(ts, v.i)
        more == Append(acc, v.v)
    IN  IF ~v.ok \/ n > Len(ts) THEN ParseFail
        ELSE IF ts[n] = "]" THEN ParseOk(Arr(more), n + 1)
        ELSE IF ts[n] = "," THEN ParseElements(ts, n + 1, more)
        ELSE ParseFail

\* JSON.parse(ts): [ok |-> it returned, v |-> the value]; ~ok is a SyntaxError
JsonParse(ts) ==
    LET r == ParseValue(ts, 1)
    IN  IF r.ok /\ SkipWs(ts, r.i) > Len(ts)
        THEN [ok |-> TRUE, v |-> r.v] ELSE [ok |-> FALSE, v |-> Undef]

\* analysisText.match(/\{[\s\S]*\}/): the span from the first "{" to the last
\* "}" after it, <<>> for null (a match is never empty)
IndexesOf(ts, a) == {i \in 1..Len(ts) : ts[i] = a}
Min(S) == CHOOSE x \in S : \A y \in S : x <= y
Max(S) == CHOOSE x \in S : \A y \in S : x >= y
JsonMatch(ts) ==
    LET opens == IndexesOf(ts, "{")
    IN  IF opens = {} THEN <<>>
        ELSE LET closes == {i \in IndexesOf(ts, "}") : i > Min(opens)}
             IN  IF closes = {} THEN <<>> ELSE SubSeq(ts, Min(opens), Max(closes))

----------------------------------------------------------------------------
(* POST /api/analyze: parsing, fallback and normalisation of the answer *)

FakeProduct == <<"Fake", " ", "Product">>
RealProduct == <<"Real", " ", "Product">>

Member(k, v) == [k |-> <<k>>, v |-> v]

\* Number(v), for the values Math.max and Math.min are applied to
ToNumber(v) ==
    CASE v.t = "number"  -> v
      [] v.t = "boolean" -> Num(v.n)
      [] v.t = "null"    -> Num(0)
      [] v.t = "string"  ->
            IF Flat(v.s) = <<>> THEN Num(0)
            ELSE IF Len(v.s) = 1 /\ v.s[1] \in NumAtoms THEN Num(NumVal(v.s[1]))
            ELSE NaN
      [] OTHER           -> NaN

\* Math.max(a, b) and Math.min(a, b)
MathMax(a, b) ==
    LET x == ToNumber(a)  y == ToNumber(b)
    IN  IF x.t = "nan" \/ y.t = "nan" THEN NaN ELSE IF x.n >= y.n THEN x ELSE y
MathMin(a, b) ==
    LET x == ToNumber(a)  y == ToNumber(b)
    IN  IF x.t = "nan" \/ y.t = "nan" THEN NaN ELSE IF x.n <= y.n THEN x ELSE y

\* IsFake without toLowerCase
IsFake_CaseSensitive(text) ==
    LET cs == Flat(text)
    IN  \/ Includes(cs, Flat(<<"fake">>))
        \/ Includes(cs, Flat(<<"counterfeit">>))
        \/ Includes(cs, Flat(<<"replica">>))

\* the keyword test of the fallback
IsFake(text) ==
    LET lower == ToLowerCase(Flat(text))
    IN  \/ Includes(lower, Flat(<<"fake">>))
        \/ Includes(lower, Flat(<<"counterfeit">>))
        \/ Includes(lower, Flat(<<"replica">>))

\* the object the catch block builds from the raw text
Fallback(text) ==
    LET isFake == IsFake(text)
    IN  Obj(<< Member("prediction", Str(IF isFake THEN FakeProduct ELSE RealProduct)),
               Member("confidence", Num(75)),
               Member("reasoning", Str(text)),
               Member("details", Obj(<<
                   Member("visualCues",
                       Arr(<<Str(<<"AI analysis completed - detailed JSON parsing unavailable">>)>>)),
                   Member("riskFactors",
                       IF isFake
                       THEN Arr(<<Str(<<"Potential authenticity concerns detected">>)>>)
                       ELSE Arr(<<>>)),
                   Member("authenticity_score", Num(IF isFake THEN 25 ELSE 75)) >>)) >>)

\* the try block: [parsed |-> JSON.parse returned, v |-> analysisResult]
ParseAnalysis(text) ==
    LET jsonMatch == JsonMatch(text)
        parsed    == JsonParse(jsonMatch)
    IN  IF jsonMatch # <<>> /\ parsed.ok
        THEN [parsed |-> TRUE, v |-> parsed.v]
        ELSE [parsed |-> FALSE, v |-> Fallback(text)]

\* confidence of the response
NormConfidence(ar) ==
    MathMin(Num(100), MathMax(Num(0), Or(Prop(ar, "confidence"), Num(50))))

\* details.authenticity_score of the response
NormAuthenticity(ar) ==
    Or(Or(Prop(Prop(ar, "details"), "authenticity_score"), Prop(ar, "confidence")),
       Num(50))

\* JSON.stringify of a number: NaN is written as null
Stringify(v) == IF v.t = "nan" THEN Null ELSE v

\* "Ensure the response has the correct structure", as the body NextResponse.json sends
Normalize(ar) ==
    LET prediction == Prop(ar, "prediction")
        cues       == Prop(Prop(ar, "details"), "visualCues")
        risks      == Prop(Prop(ar, "details"), "riskFactors")
    IN  [ prediction |-> IF prediction.t = "string" /\ StrEq(prediction.s, FakeProduct)
                         THEN Str(FakeProduct) ELSE Str(RealProduct),
          confidence |-> Stringify(NormConfidence(ar)),
          reasoning  |-> Or(Prop(ar, "reasoning"), Str(<<"Analysis completed successfully">>)),
          visualCues |-> IF cues.t = "array" THEN cues
                         ELSE Arr(<<Str(<<"Visual analysis performed">>)>>),
          riskFactors |-> IF risks.t = "array" THEN risks ELSE Arr(<<>>),
          authenticity_score |-> Stringify(NormAuthenticity(ar)) ]

\* a handler's answer: status, the error member of an error body, the result of a 200
NoResult == [ prediction |-> Undef, confidence |-> Undef, reasoning |-> Undef,
              visualCues |-> Undef, riskFactors |-> Undef, authenticity_score |-> Undef ]
NoResponse == [status |-> 0, error |-> <<>>, result |-> NoResult]
ErrorResponse(status, msg) == [status |-> status, error |-> msg, result |-> NoResult]
OkResponse(res) == [status |-> 200, error |-> <<>>, result |-> res]

\* ClassifyError testing "quota" before "API key"
ClassifyError_QuotaFirst(message) ==
    LET m == Flat(message)
    IN  IF Includes(m, Flat(<<"quota">>))
        THEN ErrorResponse(429, <<"OpenAI API quota exceeded">>)
        ELSE IF Includes(m, Flat(<<"API key">>))
        THEN ErrorResponse(401, <<"OpenAI API key is invalid or missing">>)
        ELSE IF Includes(m, Flat(<<"rate limit">>))
        THEN ErrorResponse(429, <<"Rate limit exceeded. Please try again later.">>)
        ELSE ErrorResponse(500, <<"Analysis failed: ">> \o message)

\* the catch block of the live handler, for a thrown Error with this message
ClassifyError(message) ==
    LET m == Flat(message)
    IN  IF Includes(m, Flat(<<"API key">>))
        THEN ErrorResponse(401, <<"OpenAI API key is invalid or missing">>)
        ELSE IF Includes(m, Flat(<<"quota">>))
        THEN ErrorResponse(429, <<"OpenAI API quota exceeded">>)
        ELSE IF Includes(m, Flat(<<"rate limit">>))
        THEN ErrorResponse(429, <<"Rate limit exceeded. Please try again later.">>)
        ELSE ErrorResponse(500, <<"Analysis failed: ">> \o message)

----------------------------------------------------------------------------
(* The inputs of a request: the form, and what the provider answers *)

\* image.size > 20 * 1024 * 1024
MaxImageBytes == 20 * 1024 * 1024

NoImage       == [kind |-> "none", size |-> 0]
TextField     == [kind |-> "text", size |-> 0]
File(size)    == [kind |-> "file", size |-> size]
ImageSizes    == {2048} \cup ((MaxImageBytes - SizeSlack)..(MaxImageBytes + SizeSlack))
Images        == {NoImage, TextField} \cup {File(n) : n \in ImageSizes}

SeqsUpTo(S, n) == UNION {[1..k -> S] : k \in 0..n}

\* messages of the errors the provider call rejects with
MsgAtoms == {"API key", "API", " key", "quota", "Quota", "rate limit", "timeout"}
ProviderMessages == SeqsUpTo(MsgAtoms, MaxMsgLen)

\* free text the provider may answer with
TextAtoms == {"{", "}", "Fa", "ke", "Counterfeit", "replica", "genuine", "1"}
FreeTexts == SeqsUpTo(TextAtoms, MaxTextLen) \ {<<>>}

RECURSIVE JoinComma(_)
JoinComma(ms) ==
    IF ms = <<>> THEN <<>>
    ELSE IF Len(ms) = 1 THEN ms[1]
    ELSE ms[1] \o <<",">> \o JoinComma(Tail(ms))

\* the text of an object with these members (<<>> for a member left out)
ObjectText(ms) ==
    <<"{">> \o JoinComma(SelectSeq(ms, LAMBDA m : m # <<>>)) \o <<"}">>
MemberText(k, v) == <<Quote, k, Quote, ":">> \o v
StringText(s)    == <<Quote>> \o s \o <<Quote>>

PredictionTexts ==
    { <<>>, MemberText("prediction", StringText(FakeProduct)),
            MemberText("prediction", StringText(RealProduct)) }
ConfidenceTexts ==
    { <<>> } \cup { MemberText("confidence", <<n>>) : n \in {"-5", "0", "75", "100", "150"} }
ReasoningTexts ==
    { <<>>, MemberText("reasoning", StringText(<<>>)),
            MemberText("reasoning", StringText(<<"looks", " ", "genuine">>)) }
VisualCuesTexts ==
    { <<>>, MemberText("visualCues", <<"[">> \o StringText(<<"logo">>) \o <<"]">>) }
RiskFactorsTexts ==
    { <<>>, MemberText("riskFactors", <<"[", "]">>),
            MemberText("riskFactors", <<"[">> \o StringText(<<"stitching">>) \o <<"]">>) }
AuthenticityTexts ==
    { <<>> } \cup { MemberText("authenticity_score", <<n>>) : n \in {"-5", "0", "40", "150"} }
DetailsTexts ==
    { <<>>, MemberText("details", <<"null">>) } \cup
    { MemberText("details", ObjectText(<<c, r, a>>)) :
          c \in VisualCuesTexts, r \in RiskFactorsTexts, a \in AuthenticityTexts }

\* texts holding one JSON object of the prompt's shape, members possibly left out
ObjectTexts ==
    { ObjectText(<<p, c, r, d>>) :
          p \in PredictionTexts, c \in ConfidenceTexts, r \in ReasoningTexts,
          d \in DetailsTexts }

\* what the provider may write around the object
Wrappers ==
    { [pre |-> <<>>, post |-> <<>>],
      [pre |-> <<"genuine", " ">>, post |-> <<" ", "FAKE">>],
      [pre |-> <<>>, post |-> <<" ", "}">>],
      [pre |-> <<"{", " ">>, post |-> <<>>] }

\* what the provider answers: the text, and the object it wrote into it
ProviderAnswers ==
    { [text |-> t, json |-> <<>>] : t \in FreeTexts } \cup
    { [text |-> w.pre \o o \o w.post, json |-> o] : o \in ObjectTexts, w \in Wrappers }

----------------------------------------------------------------------------
(* The upload/preview UI: state (useState, lines 203-209) *)

\* null, for a File
NoFile == 0
ImageFiles == 1..MaxFiles
\* a File the picker or a drop hands over: its identity and whether its type
\* starts with "image/"
PickedFiles == {[id |-> f, isImage |-> TRUE] : f \in ImageFiles}
                   \cup {[id |-> MaxFiles + 1, isImage |-> FALSE]}

\* reader.readAsDataURL(file): the data URI holds the content of that file
DataURL(f) == [dataOf |-> f]
NoPreview == [dataOf |-> NoFile]

\* the tags that tell an analysis request from the requests in flight and from
\* the request whose result is displayed
RequestIds == 1..(MaxInFlight + 1)

\* an AnalysisResult in the component's state: the body of the 200 response,
\* with the request that fetched it and the file that request uploaded
Analysis(req, data) == [req |-> req.id, file |-> req.file, body |-> data]
NoAnalysis == [req |-> 0, file |-> NoFile, body |-> "null"]

\* the error state: null or a message
NoMessage == [set |-> FALSE, msg |-> ""]
Message(m) == [set |-> TRUE, msg |-> m]

\* thrown errors: the handler's catch variable
NoError == [is |-> FALSE, message |-> <<>>]
Error(message) == [is |-> TRUE, message |-> message]

\* no report, and the report object of downloadReport (lines 285-292): the
\* name of a file, and the analysis, named here by the file it was made of
NoReport == [filename |-> NoFile, analysisOf |-> NoFile]
Report(file, analysis) == [filename |-> file, analysisOf |-> analysis.file]

InitUI ==
    /\ selectedImage = NoFile
    /\ imagePreview = NoPreview
    /\ isAnalyzing = FALSE
    /\ result = NoAnalysis
    /\ error = NoMessage
    /\ dragActive = FALSE
    /\ demoMode = FALSE
    /\ reads = [f \in ImageFiles |-> 0]
    /\ inflight = {}
    /\ report = NoReport

----------------------------------------------------------------------------
(* The two route handlers *)

InitApi ==
    /\ endpoint = "analyze"
    /\ apiKeySet \in BOOLEAN
    /\ body = "form"
    /\ image = NoImage
    /\ pc = "idle"
    /\ providerCalls = 0
    /\ analysisText = <<>>
    /\ parsedJson = FALSE
    /\ thrown = NoError
    /\ providerJson = <<>>
    /\ response = NoResponse

\* a client sends a request to one of the routes
SendRequest(e, b, img) ==
    /\ pc = "idle"
    /\ endpoint' = e
    /\ body' = b
    /\ image' = img
    /\ pc' = "recv"
    /\ providerCalls' = 0
    /\ analysisText' = <<>>
    /\ parsedJson' = FALSE
    /\ response' = NoResponse
    /\ UNCHANGED <<apiKeySet, thrown, providerJson, uiVars>>

\* the handler returns this response
Return(r) ==
    /\ response' = r
    /\ pc' = "done"

\* AnalyzeGate testing the image before the credential
AnalyzeGate_ImageFirst(keySet, b, img) ==
    IF b = "form" /\ img.kind = "none"
    THEN [do |-> "respond", e |-> NoError, r |-> ErrorResponse(400, <<"No image provided">>)]
    ELSE IF ~keySet
    THEN [do |-> "respond", e |-> NoError, r |-> ErrorResponse(500,
            <<"OpenAI API key is not configured. Please add OPENAI_API_KEY to your environment variables.">>)]
    ELSE IF b = "malformed"
    THEN [do |-> "throw", e |-> Error(<<"Failed to parse body as FormData.">>), r |-> NoResponse]
    ELSE IF img.kind = "none"
    THEN [do |-> "respond", e |-> NoError, r |-> ErrorResponse(400, <<"No image provided">>)]
    ELSE IF img.kind = "file" /\ img.size > MaxImageBytes
    THEN [do |-> "respond", e |-> NoError, r |-> ErrorResponse(400,
            <<"Image too large. Please use an image smaller than 20MB.">>)]
    ELSE IF img.kind = "text"
    THEN [do |-> "throw", e |-> Error(<<"image.arrayBuffer is not a function">>), r |-> NoResponse]
    ELSE [do |-> "call", e |-> NoError, r |-> NoResponse]

\* AnalyzeGate rejecting a size of exactly 20 MiB
AnalyzeGate_AtLeast(keySet, b, img) ==
    IF ~keySet
    THEN [do |-> "respond", e |-> NoError, r |-> ErrorResponse(500,
            <<"OpenAI API key is not configured. Please add OPENAI_API_KEY to your environment variables.">>)]
    ELSE IF b = "malformed"
    THEN [do |-> "throw", e |-> Error(<<"Failed to parse body as FormData.">>), r |-> NoResponse]
    ELSE IF img.kind = "none"
    THEN [do |-> "respond", e |-> NoError, r |-> ErrorResponse(400, <<"No image provided">>)]
    ELSE IF img.kind = "file" /\ img.size >= MaxImageBytes
    THEN [do |-> "respond", e |-> NoError, r |-> ErrorResponse(400,
            <<"Image too large. Please use an image smaller than 20MB.">>)]
    ELSE IF img.kind = "text"
    THEN [do |-> "throw", e |-> Error(<<"image.arrayBuffer is not a function">>), r |-> NoResponse]
    ELSE [do |-> "call", e |-> NoError, r |-> NoResponse]

\* what the live handler does before it calls the provider (lines 14-47):
\* "respond" with r, "throw" the Error e, or "call" the provider
AnalyzeGate(keySet, b, img) ==
    IF ~keySet
    THEN [do |-> "respond", e |-> NoError, r |-> ErrorResponse(500,
            <<"OpenAI API key is not configured. Please add OPENAI_API_KEY to your environment variables.">>)]
    ELSE IF b = "malformed"
    THEN [do |-> "throw", e |-> Error(<<"Failed to parse body as FormData.">>), r |-> NoResponse]
    ELSE IF img.kind = "none"
    THEN [do |-> "respond", e |-> NoError, r |-> ErrorResponse(400, <<"No image provided">>)]
    ELSE IF img.kind = "file" /\ img.size > MaxImageBytes
    THEN [do |-> "respond", e |-> NoError, r |-> ErrorResponse(400,
            <<"Image too large. Please use an image smaller than 20MB.">>)]
    ELSE IF img.kind = "text"
    THEN [do |-> "throw", e |-> Error(<<"image.arrayBuffer is not a function">>), r |-> NoResponse]
    ELSE [do |-> "call", e |-> NoError, r |-> NoResponse]

\* the catch block runs for the Error e
Catch(e) ==
    /\ thrown' = e
    /\ Return(ClassifyError(e.message))

\* POST /api/analyze up to the await of openai.chat.completions.create
AnalyzeReceive ==
    /\ pc = "recv"
    /\ endpoint = "analyze"
    /\ LET g == AnalyzeGate(apiKeySet, body, image)
       IN  CASE g.do = "respond" -> Return(g.r) /\ UNCHANGED <<providerCalls, thrown>>
             [] g.do = "throw"   -> Catch(g.e) /\ UNCHANGED providerCalls
             [] g.do = "call"    -> /\ providerCalls' = providerCalls + 1
                                    /\ pc' = "provider"
                                    /\ UNCHANGED <<response, thrown>>
    /\ UNCHANGED <<endpoint, apiKeySet, body, image, analysisText, parsedJson,
                   providerJson, uiVars>>

\* the provider call rejects with an Error: the catch block answers
AnalyzeProviderFails(message) ==
    /\ pc = "provider"
    /\ Catch(Error(message))
    /\ UNCHANGED <<endpoint, apiKeySet, body, image, providerCalls, analysisText,
                   parsedJson, providerJson, uiVars>>

\* the provider answers without content (no choice, null or ""): line 100 throws
AnalyzeProviderEmpty ==
    /\ pc = "provider"
    /\ Catch(Error(<<"No analysis received from AI">>))
    /\ UNCHANGED <<endpoint, apiKeySet, body, image, providerCalls, analysisText,
                   parsedJson, providerJson, uiVars>>

\* the provider answers with text: parse or fall back, normalise, answer 200
AnalyzeProviderAnswers(answer) ==
    /\ pc = "provider"
    /\ LET a == ParseAnalysis(answer.text)
       IN  /\ analysisText' = answer.text
           /\ providerJson' = answer.json
           /\ parsedJson' = a.parsed
           /\ Return(OkResponse(Normalize(a.v)))
    /\ UNCHANGED <<endpoint, apiKeySet, body, image, providerCalls, thrown, uiVars>>

----------------------------------------------------------------------------
(* POST /api/demo-analyze *)

\* Math.random() > 0.6, for the draw k / RandRes
DemoIsFake(k) == 10 * k > 6 * RandRes

\* Math.floor(Math.random() * 30) + 70, for the draw k / RandRes
DemoConfidence(k) == ((k * 30) \div RandRes) + 70

\* DemoAuthenticity with the two branches exchanged
DemoAuthenticity_Swapped(isDemoFake, confidence) ==
    IF isDemoFake THEN confidence ELSE 100 - confidence

\* details.authenticity_score of the demo result
DemoAuthenticity(isDemoFake, confidence) ==
    IF isDemoFake THEN 100 - confidence ELSE confidence

\* the result object of the demo handler
DemoResult(isDemoFake, confidence) ==
    [ prediction |-> Str(IF isDemoFake THEN FakeProduct ELSE RealProduct),
      confidence |-> Num(confidence),
      reasoning  |-> Str(IF isDemoFake
                         THEN <<"The image shows several indicators commonly associated with counterfeit products">>
                         ELSE <<"The product appears to exhibit characteristics consistent with authentic merchandise">>),
      visualCues |-> IF isDemoFake
                     THEN Arr(<<Str(<<"Inconsistent logo quality">>), Str(<<"Poor material finish">>),
                                Str(<<"Irregular stitching patterns">>)>>)
                     ELSE Arr(<<Str(<<"High-quality materials">>), Str(<<"Consistent branding">>),
                                Str(<<"Professional manufacturing">>)>>),
      riskFactors |-> IF isDemoFake
                      THEN Arr(<<Str(<<"Logo placement inconsistencies">>),
                                 Str(<<"Material quality concerns">>),
                                 Str(<<"Manufacturing irregularities">>)>>)
                      ELSE Arr(<<>>),
      authenticity_score |-> Num(DemoAuthenticity(isDemoFake, confidence)) ]

\* what the demo handler does before the delay (lines 4-10)
DemoGate(b, img) ==
    IF b = "malformed"
    THEN [do |-> "respond", r |-> ErrorResponse(500, <<"Demo analysis failed">>)]
    ELSE IF img.kind = "none"
    THEN [do |-> "respond", r |-> ErrorResponse(400, <<"No image provided">>)]
    ELSE [do |-> "delay", r |-> NoResponse]

\* POST /api/demo-analyze up to the await of the 2000 ms timer
DemoReceive ==
    /\ pc = "recv"
    /\ endpoint = "demo"
    /\ LET g == DemoGate(body, image)
       IN  IF g.do = "respond"
           THEN Return(g.r)
           ELSE pc' = "delay" /\ UNCHANGED response
    /\ UNCHANGED <<endpoint, apiKeySet, body, image, providerCalls, analysisText,
                   parsedJson, thrown, providerJson, uiVars>>

\* the timer fires: two draws of Math.random, the result, status 200
DemoRespond(k1, k2) ==
    /\ pc = "delay"
    /\ Return(OkResponse(DemoResult(DemoIsFake(k1), DemoConfidence(k2))))
    /\ UNCHANGED <<endpoint, apiKeySet, body, image, providerCalls, analysisText,
                   parsedJson, thrown, providerJson, uiVars>>

----------------------------------------------------------------------------
(* The endpoints, one request at a time *)

Init == InitApi /\ InitUI

Next ==
    \/ \E e \in {"analyze", "demo"}, b \in {"form", "malformed"}, img \in Images :
           SendRequest(e, b, img)
    \/ AnalyzeReceive
    \/ \E m \in ProviderMessages : AnalyzeProviderFails(m)
    \/ AnalyzeProviderEmpty
    \/ \E a \in ProviderAnswers : AnalyzeProviderAnswers(a)
    \/ DemoReceive
    \/ \E k1, k2 \in 0..(RandRes - 1) : DemoRespond(k1, k2)

Spec == Init /\ [][Next]_vars

----------------------------------------------------------------------------
(* Properties of the endpoints *)

Done200 == pc = "done" /\ response.status = 200
IsNumberIn(v, lo, hi) == v.t = "number" /\ lo <= v.n /\ v.n <= hi
Clamp(n) == IF n < 0 THEN 0 ELSE IF n > 100 THEN 100 ELSE n
Present(v) == v.t # "undefined"

\* the object the provider wrote has the shape the prompt asks for: every member
\* is left out or has the documented type, authenticity_score within 0..100
DocumentedShape(o) ==
    LET d == Prop(o, "details")
    IN  /\ Prop(o, "prediction").t \in {"undefined", "string"}
        /\ Prop(o, "confidence").t \in {"undefined", "number"}
        /\ Prop(o, "reasoning").t \in {"undefined", "string"}
        /\ d.t \in {"undefined", "object"}
        /\ Prop(d, "visualCues").t \in {"undefined", "array"}
        /\ Prop(d, "riskFactors").t \in {"undefined", "array"}
        /\ \/ ~Present(Prop(d, "authenticity_score"))
           \/ IsNumberIn(Prop(d, "authenticity_score"), 0, 100)

\* C1 (as claimed): on the normal path each field of the 200 response equals the
\* provider's value for it, confidence clamped to [0,100], a member the provider
\* left out replaced by its default; also for confidence 0 and authenticity_score 0.
\* (An empty reasoning string and the two readings of "confidence or 50" are
\* not held against the code here.)
C1_NormalPathKeepsProviderValues ==
    (Done200 /\ endpoint = "analyze" /\ providerJson # <<>> /\ parsedJson
        /\ DocumentedShape(JsonParse(providerJson).v))
    => LET o    == JsonParse(providerJson).v
           d    == Prop(o, "details")
           conf == Prop(o, "confidence")
           auth == Prop(d, "authenticity_score")
           r    == response.result
       IN  /\ Present(Prop(o, "prediction")) => r.prediction = Prop(o, "prediction")
           /\ r.confidence = IF Present(conf) THEN Num(Clamp(conf.n)) ELSE Num(50)
           /\ Truthy(Prop(o, "reasoning")) => r.reasoning = Prop(o, "reasoning")
           /\ Present(Prop(d, "visualCues")) => r.visualCues = Prop(d, "visualCues")
           /\ Present(Prop(d, "riskFactors")) => r.riskFactors = Prop(d, "riskFactors")
           /\ r.authenticity_score \in
                 IF Present(auth) THEN {auth}
                 ELSE IF Present(conf) THEN {conf, Num(Clamp(conf.n))}
                 ELSE {Num(50)}

\* the text case-insensitively contains the word kw (given in lower case)
ContainsIgnoringCase(text, kw) ==
    LET cs == Flat(text)
    IN  \E i \in 0..(Len(cs) - Len(kw)) :
            \A j \in 1..Len(kw) : LowerChar(cs[i + j]) = kw[j]
MentionsFake(text) ==
    \/ ContainsIgnoringCase(text, <<"f","a","k","e">>)
    \/ ContainsIgnoringCase(text, <<"c","o","u","n","t","e","r","f","e","i","t">>)
    \/ ContainsIgnoringCase(text, <<"r","e","p","l","i","c","a">>)

\* no JSON object can be parsed out of the text: no span from the first "{" to
\* the last "}", or a span JSON.parse rejects
NoParsableJson(text) == JsonMatch(text) = <<>> \/ ~JsonParse(JsonMatch(text)).ok

\* C2: for a non-empty provider text with no parsable JSON object the answer is
\* 200 with confidence 75, prediction "Fake Product" iff the text case-insensitively
\* contains fake, counterfeit or replica, authenticity_score 25 when fake else 75,
\* riskFactors non-empty exactly when fake, reasoning the raw text; and no
\* provider text at all ends in an error response.
C2_FallbackPath ==
    /\ (pc = "done" /\ analysisText # <<>>) => response.status = 200
    /\ (pc = "done" /\ analysisText # <<>> /\ NoParsableJson(analysisText))
       => LET fake == MentionsFake(analysisText)
              r    == response.result
          IN  /\ r.confidence = Num(75)
              /\ r.prediction = Str(IF fake THEN FakeProduct ELSE RealProduct)
              /\ r.authenticity_score = Num(IF fake THEN 25 ELSE 75)
              /\ r.riskFactors.t = "array"
              /\ (r.riskFactors.a # <<>>) <=> fake
              /\ r.reasoning = Str(analysisText)

\* C2 witness: a span from "{" to "}" that fails to parse, in a text naming a
\* counterfeit in capitals, answered as a fake
C2_Witness ==
    /\ Done200
    /\ JsonMatch(analysisText) # <<>>
    /\ ~JsonParse(JsonMatch(analysisText)).ok
    /\ ~Includes(Flat(analysisText), Flat(<<"fake">>))
    /\ ContainsIgnoringCase(analysisText, <<"f","a","k","e">>)
    /\ response.result.prediction = Str(FakeProduct)

\* C3 (as claimed): a request without an image field is answered 400 with a
\* non-empty error string by both endpoints, whatever the credential configuration
C3_MissingImageAlways400 ==
    (pc = "done" /\ body = "form" /\ image = NoImage)
    => response.status = 400 /\ Flat(response.error) # <<>>

\* C3 (amended): a form without an image field is answered with a non-empty error
\* string and without a provider call; the status is 400 from the demo endpoint,
\* and from the live endpoint 400 when the credential is configured and 500 when
\* it is not
C3_MissingImage ==
    (pc = "done" /\ body = "form" /\ image = NoImage)
    => /\ Flat(response.error) # <<>>
       /\ providerCalls = 0
       /\ response.status = IF endpoint = "demo" \/ apiKeySet THEN 400 ELSE 500

\* C3 witness: the live endpoint, no credential, no image: 500
C3_Witness ==
    /\ pc = "done" /\ endpoint = "analyze" /\ ~apiKeySet
    /\ body = "form" /\ image = NoImage
    /\ response.status = 500

\* C4 (as claimed): details.authenticity_score of every 200 response is a number
\* in [0,100]
C4_AuthenticityInRange ==
    Done200 => IsNumberIn(response.result.authenticity_score, 0, 100)

\* C5: the demo endpoint answers every form with an image with 200, confidence an
\* integer in [70,100], one of the two predictions, authenticity_score equal to
\* confidence when real and 100 - confidence when fake, riskFactors empty exactly
\* when real
C5_DemoResult ==
    (pc = "done" /\ endpoint = "demo" /\ body = "form" /\ image # NoImage)
    => LET r == response.result
       IN  /\ response.status = 200
           /\ IsNumberIn(r.confidence, 70, 100)
           /\ r.prediction \in {Str(RealProduct), Str(FakeProduct)}
           /\ r.authenticity_score =
                 IF r.prediction = Str(RealProduct) THEN r.confidence
                 ELSE Num(100 - r.confidence.n)
           /\ r.riskFactors.t = "array"
           /\ (r.riskFactors.a = <<>>) <=> (r.prediction = Str(RealProduct))

\* C5 witness: a fake drawn with the highest confidence the draws give
C5_Witness ==
    /\ Done200 /\ endpoint = "demo"
    /\ response.result.prediction = Str(FakeProduct)
    /\ response.result.confidence = Num(99)
    /\ response.result.authenticity_score = Num(1)

\* C6: when the provider call fails or returns no content the request ends with
\* an {error} response: 401 if the message contains "API key", else 429 if it
\* contains "quota", else 429 if it contains "rate limit", else 500 with
\* "Analysis failed: " followed by the message; every request that ends has a response
C6_ErrorClassification ==
    /\ pc = "done" => response.status \in {200, 400, 401, 429, 500}
    /\ (pc = "done" /\ providerCalls = 1 /\ thrown.is)
       => LET m == Flat(thrown.message)
              has(k) == Includes(m, Flat(<<k>>))
          IN  /\ Flat(response.error) # <<>>
              /\ response.result = NoResult
              /\ response.status =
                    IF has("API key") THEN 401
                    ELSE IF has("quota") THEN 429
                    ELSE IF has("rate limit") THEN 429
                    ELSE 500
              /\ response.status = 500
                 => /\ StartsWith(Flat(response.error), Flat(<<"Analysis failed: ">>))
                    /\ Flat(response.error) = Flat(<<"Analysis failed: ">>) \o m

\* C6 witness: a provider error naming both the quota and the API key, answered 401
C6_Witness ==
    /\ pc = "done" /\ providerCalls = 1 /\ thrown.is
    /\ Includes(Flat(thrown.message), Flat(<<"quota">>))
    /\ Includes(Flat(thrown.message), Flat(<<"API key">>))
    /\ response.status = 401

\* C7: with the credential and a file the answer is 400 exactly when the size
\* exceeds 20 * 1024 * 1024; the provider is called at most once per request and
\* not at all without credential, without image or with an oversize image
C7_ValidationGate ==
    /\ (pc = "done" /\ endpoint = "analyze" /\ apiKeySet /\ body = "form"
           /\ image.kind = "file")
       => (response.status = 400 <=> image.size > 20 * 1024 * 1024)
    /\ providerCalls <= 1
    /\ (endpoint = "analyze" /\ (~apiKeySet \/ image.kind = "none"
           \/ (image.kind = "file" /\ image.size > 20 * 1024 * 1024)))
       => providerCalls = 0

\* C7 witness: an image of exactly 20 MiB went to the provider and was answered
C7_Witness ==
    /\ Done200 /\ endpoint = "analyze"
    /\ image = File(20 * 1024 * 1024)
    /\ providerCalls = 1

----------------------------------------------------------------------------
(* The upload/preview UI: FakeProductDetector *)

RECURSIVE SumOver(_, _)
SumOver(f, S) ==
    IF S = {} THEN 0
    ELSE LET x == CHOOSE y \in S : TRUE IN f[x] + SumOver(f, S \ {x})
PendingReads == SumOver(reads, DOMAIN reads)

\* handleImageSelect(file): [changed, selectedImage, result, error, read]
HandleImageSelect(file) ==
    IF file.isImage
    THEN /\ selectedImage' = file.id
         /\ reads' = [reads EXCEPT ![file.id] = @ + 1]
         /\ result' = NoAnalysis
         /\ error' = NoMessage
    ELSE UNCHANGED <<selectedImage, reads, result, error>>

\* the file input's onChange (rendered while there is no preview)
SelectImage(file) ==
    /\ imagePreview = NoPreview
    /\ PendingReads < MaxReads
    /\ HandleImageSelect(file)
    /\ UNCHANGED <<imagePreview, isAnalyzing, dragActive, demoMode, inflight,
                   report, apiVars>>

\* handleDrag: dragenter and dragover set dragActive, dragleave clears it
HandleDrag(type) ==
    /\ dragActive' = CASE type \in {"dragenter", "dragover"} -> TRUE
                       [] type = "dragleave" -> FALSE
                       [] OTHER -> dragActive
    /\ UNCHANGED <<selectedImage, imagePreview, isAnalyzing, result, error, demoMode,
                   reads, inflight, report, apiVars>>

\* handleDrop: files is the dropped file list, its first file is selected
HandleDrop(files) ==
    /\ PendingReads < MaxReads
    /\ dragActive' = FALSE
    /\ IF files # <<>>
       THEN HandleImageSelect(files[1])
       ELSE UNCHANGED <<selectedImage, reads, result, error>>
    /\ UNCHANGED <<imagePreview, isAnalyzing, demoMode, inflight, report, apiVars>>

\* reader.onload of a pending FileReader for file f
ReaderLoads(f) ==
    /\ reads[f] > 0
    /\ reads' = [reads EXCEPT ![f] = @ - 1]
    /\ imagePreview' = DataURL(f)
    /\ UNCHANGED <<selectedImage, isAnalyzing, result, error, dragActive, demoMode,
                   inflight, report, apiVars>>

\* the Remove button (rendered while there is a preview)
Remove ==
    /\ imagePreview # NoPreview
    /\ selectedImage' = NoFile
    /\ imagePreview' = NoPreview
    /\ result' = NoAnalysis
    /\ UNCHANGED <<isAnalyzing, error, dragActive, demoMode, reads, inflight,
                   report, apiVars>>

\* the Demo Mode checkbox
SetDemoMode(checked) ==
    /\ demoMode' = checked
    /\ UNCHANGED <<selectedImage, imagePreview, isAnalyzing, result, error, dragActive,
                   reads, inflight, report, apiVars>>

\* the Analyze button without disabled={isAnalyzing}
AnalyzeEnabled_NeverDisabled == imagePreview # NoPreview

\* the Analyze button can be clicked: rendered while there is a preview,
\* disabled={isAnalyzing}
AnalyzeEnabled == imagePreview # NoPreview /\ ~isAnalyzing

\* the tag of a new request: not the tag of the displayed result, nor of a
\* request in flight
FreshId == CHOOSE i \in RequestIds :
               i # result.req /\ \A r \in inflight : r.id # i

\* analyzeImage up to the await of fetch (lines 245-261)
AnalyzeImage ==
    /\ AnalyzeEnabled
    /\ Cardinality(inflight) < MaxInFlight
    /\ IF selectedImage = NoFile
       THEN UNCHANGED <<isAnalyzing, error, inflight>>
       ELSE /\ isAnalyzing' = TRUE
            /\ error' = NoMessage
            /\ inflight' = inflight \cup
                  {[id |-> FreshId, file |-> selectedImage, demo |-> demoMode]}
    /\ UNCHANGED <<selectedImage, imagePreview, result, dragActive, demoMode, reads,
                   report, apiVars>>

\* how a fetch ends: it rejects, or it resolves with a response whose body is
\* JSON or not; errorMember is the error member of a JSON body ("" for none),
\* body the value an OK response's JSON body parses to
FetchOutcomes ==
    { [kind |-> "reject", ok |-> FALSE, status |-> 0, json |-> FALSE,
       errorMember |-> "", body |-> "null"] }
    \cup { [kind |-> "response", ok |-> TRUE, status |-> 200, json |-> TRUE,
            errorMember |-> "", body |-> b] : b \in {"AnalysisResult", "null"} }
    \cup { [kind |-> "response", ok |-> TRUE, status |-> 200, json |-> FALSE,
            errorMember |-> "", body |-> "null"] }
    \cup { [kind |-> "response", ok |-> FALSE, status |-> 500, json |-> FALSE,
            errorMember |-> "", body |-> "null"] }
    \cup { [kind |-> "response", ok |-> FALSE, status |-> 429, json |-> TRUE,
            errorMember |-> "OpenAI API quota exceeded", body |-> "null"],
           [kind |-> "response", ok |-> FALSE, status |-> 500, json |-> TRUE,
            errorMember |-> "", body |-> "null"] }

\* the message of the Error the try block throws for this outcome, "" when it
\* throws none (lines 258-272): a rejected fetch, a status that is not OK, a
\* body that is not JSON, the read of analysisResult.prediction of null
ThrownMessage(o) ==
    CASE o.kind = "reject"  -> "Failed to fetch"
      [] ~o.ok /\ ~o.json   -> "Unknown error occurred"
      [] ~o.ok /\ o.json    -> IF o.errorMember # "" THEN o.errorMember
                               ELSE "HTTP 500: Internal Server Error"
      [] o.ok /\ ~o.json    -> "Unexpected token < in JSON at position 0"
      [] o.body = "null"    -> "Cannot read properties of null (reading 'prediction')"
      [] OTHER              -> ""

\* result after the try and catch blocks, had the catch block cleared it
ResultAfter_ClearedOnFailure(prev, req, o) ==
    IF ThrownMessage(o) = "" THEN Analysis(req, o.body) ELSE NoAnalysis

\* result after the try and catch blocks (lines 270-276): set on success only
ResultAfter(prev, req, o) ==
    IF ThrownMessage(o) = "" THEN Analysis(req, o.body) ELSE prev

\* error after the try and catch blocks (lines 273-276): set on failure only
ErrorAfter(prev, o) ==
    IF ThrownMessage(o) = "" THEN prev ELSE Message(ThrownMessage(o))

\* isAnalyzing cleared at the end of the try block instead of in finally
AnalyzingAfter_TryOnly(o) == ThrownMessage(o) # ""

\* isAnalyzing after the finally block (lines 277-279)
AnalyzingAfter(o) == FALSE

\* analyzeImage from the await of fetch to its end (lines 258-279): the fetch
\* of req settles with outcome o and the rest of the function runs
AnalyzeSettles(req, o) ==
    /\ req \in inflight
    /\ inflight' = inflight \ {req}
    /\ result' = ResultAfter(result, req, o)
    /\ error' = ErrorAfter(error, o)
    /\ isAnalyzing' = AnalyzingAfter(o)
    /\ UNCHANGED <<selectedImage, imagePreview, dragActive, demoMode, reads,
                   report, apiVars>>

\* downloadReport, from the Download Report button (rendered with a result)
DownloadReport ==
    /\ result # NoAnalysis
    /\ IF selectedImage = NoFile
       THEN UNCHANGED report
       ELSE report' = Report(selectedImage, result)
    /\ UNCHANGED <<selectedImage, imagePreview, isAnalyzing, result, error, dragActive,
                   demoMode, reads, inflight, apiVars>>

InitUIOnly == InitUI /\ InitApi /\ apiKeySet

NextUI ==
    \/ \E file \in PickedFiles : SelectImage(file)
    \/ \E type \in {"dragenter", "dragover", "dragleave"} : HandleDrag(type)
    \/ \E files \in {<<>>} \cup {<<file>> : file \in PickedFiles} : HandleDrop(files)
    \/ \E f \in ImageFiles : ReaderLoads(f)
    \/ Remove
    \/ \E checked \in BOOLEAN : SetDemoMode(checked)
    \/ AnalyzeImage
    \/ DownloadReport
    \/ \E req \in inflight, o \in FetchOutcomes : AnalyzeSettles(req, o)

SpecUI == InitUIOnly /\ [][NextUI]_vars

\* every fetch settles, and the rest of analyzeImage then runs
SpecUIFair ==
    /\ SpecUI
    /\ WF_vars(\E req \in inflight, o \in FetchOutcomes : AnalyzeSettles(req, o))

----------------------------------------------------------------------------
(* Properties of the UI *)

\* a step in which analyzeImage issues a request
Starts == \E r \in inflight' : \A q \in inflight : q.id # r.id

\* a step in which analyzeImage ends for the request req
Finishes(req) == req \in inflight /\ \A r \in inflight' : r.id # req.id

\* the fetch was rejected or answered with a status that is not OK
Failed(o) == o.kind = "reject" \/ (o.kind = "response" /\ ~o.ok)

\* C8: once analysis has started and its request completes, isAnalyzing becomes
\* false again; isAnalyzing is true exactly while a request is in flight; and
\* when a request ends, either result is the one this request set or error is
\* present, never both and never neither
C8_AnalyzingCleared ==
    /\ isAnalyzing ~> ~isAnalyzing
    /\ [](isAnalyzing <=> inflight # {})
    /\ [][\A req \in inflight :
             Finishes(req) => /\ ~isAnalyzing'
                              /\ (result'.req = req.id) # error'.set]_vars

\* C8 witness: the first request has failed; analysis is over, the error is shown
C8_Witness ==
    /\ inflight = {}
    /\ ~isAnalyzing /\ error.set /\ result = NoAnalysis

\* the strings the component falls back to when the endpoint gave no message
FallbackMessages ==
    {"Unknown error occurred", "HTTP 500: Internal Server Error", "Failed to fetch"}

\* C9: when a request fails (the fetch rejects or the status is not OK) error
\* becomes the endpoint's error message, or a fallback string when there is
\* none, and result, selectedImage, preview and demoMode keep their values; the
\* start of an analysis leaves those four unchanged as well
C9_FailureFrame ==
    [][/\ \A req \in inflight, o \in FetchOutcomes :
             (AnalyzeSettles(req, o) /\ Failed(o))
             => /\ error'.set
                /\ IF o.errorMember # ""
                   THEN error'.msg = o.errorMember
                   ELSE error'.msg \in FallbackMessages
                /\ result' = result
                /\ selectedImage' = selectedImage
                /\ imagePreview' = imagePreview
                /\ demoMode' = demoMode
       /\ Starts
          => /\ result' = result
             /\ selectedImage' = selectedImage
             /\ imagePreview' = imagePreview
             /\ demoMode' = demoMode]_vars

\* C9 witness: the second analysis failed with the endpoint's message and the
\* result of the first is still displayed
C9_Witness ==
    /\ inflight = {}
    /\ error = Message("OpenAI API quota exceeded")
    /\ result # NoAnalysis

\* C10: at most one analysis request is in flight; no step starts a request
\* while selectedImage is absent or while isAnalyzing is true
C10_OneRequestInFlight ==
    /\ [](Cardinality(inflight) <= 1)
    /\ [][(selectedImage = NoFile \/ isAnalyzing)
             => /\ ~Starts
                /\ {r.id : r \in inflight'} \subseteq {r.id : r \in inflight}
                /\ isAnalyzing' => isAnalyzing]_vars

\* C10 witness: a request is in flight after an earlier one has ended and its
\* report was downloaded, and the image was removed while it is in flight
C10_Witness ==
    /\ Cardinality(inflight) = 1 /\ isAnalyzing
    /\ error = NoMessage /\ report # NoReport
    /\ selectedImage = NoFile


\* C11: whenever a result is displayed an image is selected and the result is
\* the analysis of that image; a downloaded report never pairs the name of one
\* file with the analysis of another
C11_ResultFresh ==
    /\ result # NoAnalysis
       => /\ selectedImage # NoFile
          /\ result.file = selectedImage
    /\ report # NoReport => report.filename = report.analysisOf

\* C12: whenever a preview is displayed an image is selected and the preview is
\* the data URI of that image
C12_PreviewOfSelected ==
    imagePreview # NoPreview
    => /\ selectedImage # NoFile
       /\ imagePreview = DataURL(selectedImage)

=============================================================================
